---- MODULE Spec2Model ----
(***************************************************************************)
(* Model of extract_cover_from_id3 (src/apply_meta.py, lines 22-84): the   *)
(* ID3v2 tag locator, the frame scanner and the APIC picture decoder.      *)
(*                                                                         *)
(* Bytes are the integers 0..255 and a buffer is a sequence of bytes.      *)
(* Python indexes from 0, TLA+ sequences from 1: At and Slice convert.     *)
(* One run of the model is one call of the function on one input file.     *)
(***************************************************************************)
EXTENDS Integers, Sequences, FiniteSets, TLC

VARIABLES file, pc, oserror, major, tag_data, pos, j, result

vars == <<file, pc, oserror, major, tag_data, pos, j, result>>

-----------------------------------------------------------------------------
(* Bounds of the checked inputs.                                           *)

\* Longest run of 0x00 / 'A' bytes placed between the encoding byte and the
\* image bytes of a generated picture payload (MIME string, picture type,
\* description and terminators are all drawn from it).
MaxMid == 6

\* Largest number of frames in a generated tag body.
MaxFrames == 2

\* The same two bounds for the inputs of the termination check.
MaxTermMid == 4

MaxTermFrames == 2

-----------------------------------------------------------------------------
(* Python buffer primitives.                                               *)

Min(a, b) == IF a < b THEN a ELSE b

\* buf[i] for an index that is in bounds.
At(buf, i) == buf[i + 1]

\* buf[a:b] for 0 <= a, 0 <= b: never raises, clamps to the buffer.
Slice(buf, a, b) == SubSeq(buf, a + 1, Min(b, Len(buf)))

\* buf[a:]
SliceFrom(buf, a) == Slice(buf, a, Len(buf))

\* TRUE iff every index of idxs can be read from buf without IndexError.
InBounds(buf, idxs) == \A i \in idxs : 0 <= i /\ i < Len(buf)

\* buf.index(0, start): the first index >= start holding a zero byte;
\* -1 stands for the ValueError raised when there is none.
IndexZero(buf, start) ==
    LET Z == {i \in start..(Len(buf) - 1) : At(buf, i) = 0}
    IN  IF Z = {} THEN -1 ELSE CHOOSE i \in Z : \A k \in Z : i <= k

\* ((b0 & 0x7f) << 21) | ((b1 & 0x7f) << 14) | ((b2 & 0x7f) << 7) | (b3 & 0x7f)
\* The four 7-bit fields do not overlap, so the bitwise-or is their sum.
SyncSafe(b0, b1, b2, b3) ==
    (b0 % 128) * 2097152 + (b1 % 128) * 16384 + (b2 % 128) * 128 + (b3 % 128)

\* int.from_bytes(bs, 'big')
RECURSIVE FromBytesBig(_)
FromBytesBig(bs) ==
    IF bs = <<>> THEN 0
    ELSE FromBytesBig(SubSeq(bs, 1, Len(bs) - 1)) * 256 + bs[Len(bs)]

-----------------------------------------------------------------------------
(* Byte strings compared by the code.                                      *)

\* b'ID3'
ID3 == <<73, 68, 51>>

\* b'APIC'
APIC == <<65, 80, 73, 67>>

\* b'\x89PNG'
PNGMagic == <<137, 80, 78, 71>>

-----------------------------------------------------------------------------
(* Results of one call.                                                    *)

\* return None
NoImage == [kind |-> "none", img |-> <<>>, ext |-> ""]

\* An uncaught exception leaving the function: an IndexError of a read
\* (oserror stays FALSE), or the OSError of a failed temporary-file write
\* (oserror becomes TRUE).
Raised == [kind |-> "raised", img |-> <<>>, ext |-> ""]

\* ".png" if img_data[:4] == b'\x89PNG' else ".jpg"
Ext(img) == IF Slice(img, 0, 4) = PNGMagic THEN ".png" ELSE ".jpg"

\* The temporary file written and returned (lines 78-81, when the write
\* succeeds): its bytes and its suffix.
Image(img) == [kind |-> "image", img |-> img, ext |-> Ext(img)]

-----------------------------------------------------------------------------
(* Tag locator, lines 24-34.                                               *)

\* f.read(10)
Header(f) == Slice(f, 0, 10)

\* not (len(header) < 10 or header[:3] != b'ID3')
HeaderPresent(h) == ~(Len(h) < 10 \/ Slice(h, 0, 3) # ID3)

\* The single-byte reads of the header.
HeaderReads == {3, 6, 7, 8, 9}

\* size = syncsafe(header[6..9]), whatever the version
TagSize(h) == SyncSafe(At(h, 6), At(h, 7), At(h, 8), At(h, 9))

\* tag_data = f.read(size): at most size bytes after the header.
TagBody(f, size) == Slice(f, 10, 10 + size)

-----------------------------------------------------------------------------
(* Frame scanner, lines 36-48 and 83.                                      *)

\* while pos < len(tag_data) - 10
MoreFrames(p) == p < Len(tag_data) - 10

\* fid = tag_data[pos:pos+4]
FrameId(p) == Slice(tag_data, p, p + 4)

\* The single-byte reads of one iteration before the payload is sliced:
\* fid[0], which is tag_data[pos] and raises when the slice fid is empty,
\* and for version 4 the four size bytes.
FrameReads(p) ==
    {p} \cup (IF major = 4 THEN {p + 4, p + 5, p + 6, p + 7} ELSE {})

\* Mutant of IsPadding: the padding check is left out.
NoPaddingStop(p) == FALSE

\* if fid[0] == 0: break
IsPadding(p) == At(FrameId(p), 0) = 0

\* Mutant of FrameSize: the frame size is read as syncsafe whatever the
\* version.
FrameSizeSyncSafeOnly(p) ==
    SyncSafe(At(tag_data, p + 4), At(tag_data, p + 5),
             At(tag_data, p + 6), At(tag_data, p + 7))

\* fs: syncsafe for version 4, plain big-endian otherwise.
FrameSize(p) ==
    IF major = 4
    THEN SyncSafe(At(tag_data, p + 4), At(tag_data, p + 5),
                  At(tag_data, p + 6), At(tag_data, p + 7))
    ELSE FromBytesBig(Slice(tag_data, p + 4, p + 8))

\* Mutant of FrameData: a frame whose declared size runs past the body gets
\* no payload instead of the bytes that remain.
FrameDataStrict(p) ==
    IF p + 10 + FrameSize(p) > Len(tag_data) THEN <<>>
    ELSE Slice(tag_data, p + 10, p + 10 + FrameSize(p))

\* frame_data = tag_data[pos+10:pos+10+fs]
FrameData(p) == Slice(tag_data, p + 10, p + 10 + FrameSize(p))

\* fid == b'APIC' and len(frame_data) > 4
IsPicture(p) == FrameId(p) = APIC /\ Len(FrameData(p)) > 4

\* Mutant of NextPos: the 10-byte frame header is not counted.
NextPosNoHeader(p) == p + FrameSize(p)

\* pos += 10 + fs
NextPos(p) == p + 10 + FrameSize(p)

-----------------------------------------------------------------------------
(* Picture decoder, lines 49-81.                                           *)

\* null1 = frame_data.index(0, 1)
Null1(fd) == IndexZero(fd, 1)

\* desc_start = null1 + 2
DescStart(fd) == Null1(fd) + 2

\* enc in (0, 3): null2 = index(0, desc_start), or desc_start when there is
\* no zero byte; img_data = frame_data[null2+1:]
SingleByteImage(fd) ==
    LET found == IndexZero(fd, DescStart(fd))
        null2 == IF found = -1 THEN DescStart(fd) ELSE found
    IN  SliceFrom(fd, null2 + 1)

\* else: img_data = frame_data[desc_start:]
OtherEncImage(fd) == SliceFrom(fd, DescStart(fd))

\* Mutant of Utf16More: the loop runs up to the last byte, so that
\* frame_data[j+1] is read one past the end.
Utf16MoreToEnd(fd, k) == k < Len(fd)

\* while j < len(frame_data) - 1
Utf16More(fd, k) == k < Len(fd) - 1

\* frame_data[j] == 0 and frame_data[j+1] == 0
Utf16Pair(fd, k) == At(fd, k) = 0 /\ At(fd, k + 1) = 0

\* j += 1
Utf16Next(k) == k + 1

\* img_data = frame_data[j+2:]
Utf16Image(fd, k) == SliceFrom(fd, k + 2)

\* len(img_data) < 4
TooShort(img) == Len(img) < 4

\* The index j at which the inner loop of lines 64-68 stops when entered
\* with j = k.
RECURSIVE Utf16End(_, _)
Utf16End(fd, k) ==
    IF Utf16More(fd, k) /\ ~Utf16Pair(fd, k) THEN Utf16End(fd, Utf16Next(k)) ELSE k

\* Lines 49-81 as a function of the payload of a picture frame: the image
\* returned when the temporary file can be written, or NoImage when the
\* frame is skipped (continue).
Decoded(fd) ==
    IF Null1(fd) = -1 THEN NoImage
    ELSE LET enc == At(fd, 0)
             img == IF enc \in {0, 3} THEN SingleByteImage(fd)
                    ELSE IF enc \in {1, 2}
                         THEN Utf16Image(fd, Utf16End(fd, DescStart(fd)))
                    ELSE OtherEncImage(fd)
         IN  IF TooShort(img) THEN NoImage ELSE Image(img)

-----------------------------------------------------------------------------
(* Inputs.                                                                 *)

\* All byte strings over S of length at most n.
SeqsUpTo(S, n) == UNION {[1..k -> S] : k \in 0..n}

RECURSIVE Concat(_)
Concat(ss) == IF ss = <<>> THEN <<>> ELSE Head(ss) \o Concat(Tail(ss))

\* A 10-byte tag header: magic, major version, minor 0, flags 0, size bytes.
MkHeader(magic, v, sz) == magic \o <<v, 0, 0>> \o sz

\* A frame: 4-byte id, 4 size bytes, 2 flag bytes, payload.
MkFrame(fid, sz, payload) == fid \o sz \o <<0, 0>> \o payload

\* Size bytes that declare n (n < 128) in both encodings.
Sz(n) == <<0, 0, 0, n>>

\* b'TIT2'
TIT2 == <<84, 73, 84, 50>>

Encodings == {0, 1, 2, 3, 5}

Images ==
    { <<137, 80, 78, 71, 13>>,      \* PNG signature
      <<255, 216, 255, 224>>,       \* JPEG
      <<255, 216, 0, 0, 16>>,       \* JPEG-like bytes holding a zero pair
      <<137, 80, 78, 70>>,          \* one byte off the PNG signature
      <<137, 80, 78>> }             \* too short to sniff

\* Picture payloads: encoding byte, then up to MaxMid bytes of 0x00 / 'A'
\* (MIME string, picture type, description, terminators), then image bytes.
Payloads ==
    {<<e>> \o m \o i : e \in Encodings, m \in SeqsUpTo({0, 65}, MaxMid), i \in Images}

\* Family A: a version 3 tag holding exactly one picture frame.
DecoderInputs ==
    {MkHeader(ID3, 3, Sz(10 + Len(p))) \o MkFrame(APIC, Sz(Len(p)), p) :
        p \in Payloads}

\* Frames of the scanner inputs.
FrameKinds ==
    { MkFrame(TIT2, Sz(1), <<65>>),                             \* text frame
      MkFrame(TIT2, Sz(0), <<>>),                               \* zero-size frame
      MkFrame(TIT2, <<0, 0, 0, 129>>, <<65>>),                  \* high bit in size
      MkFrame(TIT2, <<0, 0, 1, 2>>, <<65, 66>>),                \* 130 or 258
      MkFrame(<<0, 0, 0, 0>>, Sz(0), <<0>>),                    \* padding
      MkFrame(APIC, Sz(9), <<0, 0, 3, 0, 137, 80, 78, 71, 13>>),  \* PNG, Latin-1
      MkFrame(APIC, Sz(16), <<1, 105, 0, 3, 65, 0, 0, 0, 255, 216, 255, 224>>), \* JPEG, UTF-16, size overruns
      MkFrame(APIC, Sz(5), <<0, 65, 65, 65, 65>>),              \* no MIME terminator
      MkFrame(APIC, Sz(6), <<3, 0, 3, 0, 137, 80>>),            \* 2 image bytes
      MkFrame(APIC, Sz(4), <<0, 0, 3, 0>>) }                    \* payload not > 4

Bodies == {Concat(fs) : fs \in SeqsUpTo(FrameKinds, MaxFrames)}

\* Declared tag sizes for a body of n bytes: exact, exact with the high bits
\* set, larger than the file, smaller than the body (by 3 and by 7).
TagSizes(n) ==
    { Sz(n), <<128, 128, 128, 128 + n>>, <<0, 0, 1, n>> }
    \cup (IF n >= 7 THEN {Sz(n - 3), Sz(n - 7)} ELSE {})

MajorVersions == {2, 3, 4}

\* Family B: tags of up to MaxFrames frames, every version and tag size.
ScannerInputs ==
    UNION {{MkHeader(ID3, v, sz) \o body : v \in MajorVersions, sz \in TagSizes(Len(body))} :
              body \in Bodies}

\* A well-formed version 3 file with one PNG picture.
GoodFile ==
    MkHeader(ID3, 3, Sz(19))
        \o MkFrame(APIC, Sz(9), <<0, 0, 3, 0, 137, 80, 78, 71, 13>>)

\* Family C: files cut inside the header, and files without the magic marker.
AbsentInputs ==
    {Slice(GoodFile, 0, n) : n \in 0..9}
    \cup { <<73, 68, 50>> \o SliceFrom(GoodFile, 3),
           <<105, 100, 51>> \o SliceFrom(GoodFile, 3),
           <<0>> \o GoodFile }

Inputs == DecoderInputs \cup ScannerInputs \cup AbsentInputs

\* Inputs of the termination check: UTF-16 picture payloads with and without
\* a terminator, and tags of zero-size, text, undecodable picture, decodable
\* picture and padding frames, in versions 3 and 4.
TermPayloads ==
    {<<1>> \o m \o i : m \in SeqsUpTo({0, 65}, MaxTermMid),
                        i \in {<<255, 216, 0, 0, 16>>, <<137, 80, 78>>}}

TermFrameKinds ==
    { MkFrame(TIT2, Sz(0), <<>>),
      MkFrame(TIT2, Sz(1), <<65>>),
      MkFrame(<<0, 0, 0, 0>>, Sz(0), <<0>>),
      MkFrame(APIC, Sz(5), <<0, 65, 65, 65, 65>>),
      MkFrame(APIC, Sz(6), <<3, 0, 3, 0, 137, 80>>),
      MkFrame(APIC, Sz(16), <<1, 105, 0, 3, 65, 0, 0, 0, 255, 216, 255, 224>>) }

TermBodies ==
    {MkFrame(APIC, Sz(Len(p)), p) : p \in TermPayloads}
    \cup {Concat(fs) : fs \in SeqsUpTo(TermFrameKinds, MaxTermFrames)}

TermInputs ==
    {MkHeader(ID3, v, Sz(Len(body))) \o body : v \in {3, 4}, body \in TermBodies}

-----------------------------------------------------------------------------
(* The call as a state machine.                                            *)

\* The state at the call, before the file is opened.
Start(files) ==
    /\ file \in files
    /\ pc = "open"
    /\ oserror = FALSE
    /\ major = 0
    /\ tag_data = <<>>
    /\ pos = 0
    /\ j = 0
    /\ result = NoImage

Init == Start(Inputs)

TermInit == Start(TermInputs)

\* return r, or an exception r leaving the function
Return(r) ==
    /\ pc' = "done"
    /\ result' = r
    /\ UNCHANGED <<file, oserror, major, tag_data, pos, j>>

\* pos += 10 + fs; continue
Advance ==
    /\ pc' = "scan"
    /\ pos' = NextPos(pos)
    /\ UNCHANGED <<file, oserror, major, tag_data, j, result>>

\* Lines 78-81: sniff the suffix, name a temporary file, write the image
\* bytes to it and return its path.  tempfile.mktemp and tmp.write_bytes
\* are outside the try of lines 24-34: when the temporary directory is
\* missing or not writable the OSError leaves the function uncaught.
WriteTemp(img) ==
    \/ Return(Image(img))
    \/ /\ pc' = "done"
       /\ oserror' = TRUE
       /\ result' = Raised
       /\ UNCHANGED <<file, major, tag_data, pos, j>>

\* Mutant of AfterDescription: a picture with too few image bytes ends the
\* scan (return None) instead of being skipped.
AfterDescriptionStops(img) ==
    IF TooShort(img) THEN Return(NoImage) ELSE WriteTemp(img)

\* Lines 73-81: skip the frame when fewer than 4 image bytes are left,
\* otherwise write the image to a temporary file and return it.
AfterDescription(img) ==
    IF TooShort(img) THEN Advance ELSE WriteTemp(img)

\* Lines 24-36: read the header and the tag body.
Open ==
    /\ pc = "open"
    /\ LET header == Header(file)
       IN  IF ~HeaderPresent(header) THEN Return(NoImage)
           ELSE IF ~InBounds(header, HeaderReads) THEN Return(Raised)
           ELSE /\ major' = At(header, 3)
                /\ tag_data' = TagBody(file, TagSize(header))
                /\ pos' = 0
                /\ pc' = "scan"
                /\ UNCHANGED <<file, oserror, j, result>>

\* Lines 33-34: open() or read() fails with OSError; the call returns None.
OpenFails ==
    /\ pc = "open"
    /\ pc' = "done"
    /\ oserror' = TRUE
    /\ result' = NoImage
    /\ UNCHANGED <<file, major, tag_data, pos, j>>

\* Lines 37-71 and 83-84: one evaluation of the outer loop's condition and,
\* when it holds, one iteration up to the description scan.
ScanFrame ==
    /\ pc = "scan"
    /\ IF ~MoreFrames(pos) THEN Return(NoImage)
       ELSE IF ~InBounds(tag_data, FrameReads(pos)) THEN Return(Raised)
       ELSE IF IsPadding(pos) THEN Return(NoImage)
       ELSE IF ~IsPicture(pos) THEN Advance
       ELSE LET fd == FrameData(pos)
                enc == At(fd, 0)
            IN  IF Null1(fd) = -1 THEN Advance
                ELSE IF enc \in {0, 3} THEN AfterDescription(SingleByteImage(fd))
                ELSE IF enc \in {1, 2}
                     THEN /\ pc' = "utf16"
                          /\ j' = DescStart(fd)
                          /\ UNCHANGED <<file, oserror, major, tag_data, pos, result>>
                ELSE AfterDescription(OtherEncImage(fd))

\* Lines 65-69: one evaluation of the inner loop's condition; the loop ends
\* by its condition or by break, and img_data is cut at j + 2.
Utf16Scan ==
    /\ pc = "utf16"
    /\ LET fd == FrameData(pos)
       IN  IF ~Utf16More(fd, j) THEN AfterDescription(Utf16Image(fd, j))
           ELSE IF ~InBounds(fd, {j, j + 1}) THEN Return(Raised)
           ELSE IF Utf16Pair(fd, j) THEN AfterDescription(Utf16Image(fd, j))
           ELSE /\ j' = Utf16Next(j)
                /\ UNCHANGED <<file, pc, oserror, major, tag_data, pos, result>>

Next == Open \/ OpenFails \/ ScanFrame \/ Utf16Scan

Spec == Init /\ [][Next]_vars

\* The call is sequential code that keeps running until it returns.
TermSpec == TermInit /\ [][Next]_vars /\ WF_vars(Next)

-----------------------------------------------------------------------------
(* Vocabulary of the properties.                                           *)

\* The header was read and accepted, the body is being or was scanned, and
\* no file operation has failed.
Scanned == pc # "open" /\ ~oserror /\ HeaderPresent(Header(file))

\* The scan position holds a frame: the loop condition holds and the
\* identifier does not start with a zero byte.
FrameHere == MoreFrames(pos) /\ At(tag_data, pos) # 0

\* The frame at the scan position is being decoded as a picture.
PictureHere == pc \in {"scan", "utf16"} /\ FrameHere /\ IsPicture(pos)

\* The step leaves the frame at the scan position behind and scans on.
SkipsFrame == pc' = "scan" /\ pos' = pos + 10 + FrameSize(pos)

\* The step's file operations succeed.
IoSucceeds == ~oserror'

\* The step returns r.
Returns(r) == pc' = "done" /\ result' = r

\* The least element of a non-empty set of integers.
Least(S) == CHOOSE i \in S : \A k \in S : i <= k

\* Zero pairs at an even distance from the description start.
AlignedPairs(fd) ==
    {k \in DescStart(fd)..(Len(fd) - 2) :
        (k - DescStart(fd)) % 2 = 0 /\ At(fd, k) = 0 /\ At(fd, k + 1) = 0}

\* Zero pairs at any distance from the description start.
ZeroPairs(fd) ==
    {k \in DescStart(fd)..(Len(fd) - 2) : At(fd, k) = 0 /\ At(fd, k + 1) = 0}

\* Zero bytes at or after the description start.
ZeroBytes(fd) == {k \in DescStart(fd)..(Len(fd) - 1) : At(fd, k) = 0}

\* The positions the scan visits, in body order: from 0, each 10 + declared
\* size after the one before, up to end-of-data or padding.
RECURSIVE FramePositions(_)
FramePositions(p) ==
    IF ~(p < Len(tag_data) - 10) \/ At(tag_data, p) = 0 THEN <<>>
    ELSE <<p>> \o FramePositions(p + 10 + FrameSize(p))

\* The frame at p is a picture frame with payload longer than 4 bytes that
\* decodes successfully.
Usable(p) == IsPicture(p) /\ Decoded(FrameData(p)).kind = "image"

\* The position and the image of the first usable frame in body order, or
\* <<-1, NoImage>>.
FirstUsable ==
    LET ps == FramePositions(0)
        U  == {i \in 1..Len(ps) : Usable(ps[i])}
    IN  IF U = {} THEN <<-1, NoImage>>
        ELSE <<ps[Least(U)], Decoded(FrameData(ps[Least(U)]))>>

-----------------------------------------------------------------------------
(* C1 *)

\* C1: for every input the parsing never raises and never reads a byte of
\* header, tag_data or frame_data at an index outside the buffer, and its
\* outcome is always None or an image with extension .png or .jpg.  The one
\* exception that can leave the call is not the parsing's: the OSError of
\* the temporary-file write of lines 79-80, after the parsing has produced
\* its image.
C1_NeverRaisesNorReadsOutOfBounds ==
    /\ result.kind \in {"none", "image", "raised"}
    /\ result.kind = "raised"
          => /\ oserror /\ pc = "done" /\ HeaderPresent(Header(file))
             /\ FrameHere /\ Usable(pos)
    /\ result.kind = "image" => result.ext \in {".png", ".jpg"}
    /\ pc = "open" /\ HeaderPresent(Header(file))
          => InBounds(Header(file), HeaderReads)
    /\ pc = "scan" /\ MoreFrames(pos)
          => /\ InBounds(tag_data, FrameReads(pos))
             /\ IsPadding(pos) \/ ~IsPicture(pos) \/ InBounds(FrameData(pos), {0})
    /\ pc = "utf16" /\ Utf16More(FrameData(pos), j)
          => InBounds(FrameData(pos), {j, j + 1})

\* The description scan has run from the description start up to the last
\* byte of the payload, where reading frame_data[j+1] would leave the buffer.
C1_Witness ==
    /\ pc = "utf16"
    /\ j = Len(FrameData(pos)) - 1
    /\ j > DescStart(FrameData(pos))

-----------------------------------------------------------------------------
(* C2 *)

\* C2: for encoding 1 or 2 the description terminator is the first zero
\* pair at an even distance from the description start, and the image is
\* exactly the bytes after that pair; a pair straddling two code units is
\* not the terminator.
C2_AlignedTerminator ==
    pc = "done" /\ result.kind = "image" /\ At(FrameData(pos), 0) \in {1, 2}
        => LET fd == FrameData(pos)
           IN  /\ AlignedPairs(fd) # {}
               /\ result.img = SliceFrom(fd, Least(AlignedPairs(fd)) + 2)

-----------------------------------------------------------------------------
(* C3 *)

C3_Act ==
    pc = "scan" /\ FrameHere /\ IsPicture(pos)
        /\ At(FrameData(pos), 0) \notin {0, 1, 2, 3}
        /\ IoSucceeds
        => LET want == Decoded([FrameData(pos) EXCEPT ![1] = 0])
           IN  IF want.kind = "image" THEN Returns(want) ELSE SkipsFrame

\* C3: a picture frame whose encoding byte is none of 0, 1, 2, 3 decodes to
\* what the same payload with encoding byte 0 decodes to (image and
\* extension, or undecodable).
C3_OtherEncodingAsLatin1 == [][C3_Act]_vars

-----------------------------------------------------------------------------
(* C4 *)

C4_Act ==
    pc = "utf16" /\ pc' # "utf16"
        /\ ZeroPairs(FrameData(pos)) = {}
        /\ Len(FrameData(pos)) - DescStart(FrameData(pos)) >= 4
        /\ IoSucceeds
        => pc' = "done" /\ result'.kind = "image"

\* C4: for encoding 1 or 2, when no zero pair ends the description and at
\* least 4 bytes remain from the description start, the frame is not
\* undecodable: an image is produced.  (The weakest reading: which of the
\* remaining bytes make up the image is left open.)
C4_MissingUtf16TerminatorStillDecodes == [][C4_Act]_vars

-----------------------------------------------------------------------------
(* C5 *)

\* C5: whenever an image is produced, its bytes are exactly the payload
\* bytes after the description terminator (a zero byte at or after the
\* description start; the first aligned zero pair for encoding 1 or 2), and
\* its extension is .png iff its first 4 bytes are 0x89 'P' 'N' 'G', else
\* .jpg, whatever the MIME string.
C5_ImageFollowsTerminator ==
    pc = "done" /\ result.kind = "image"
        => LET fd    == FrameData(pos)
               wide  == At(fd, 0) \in {1, 2}
               terms == IF wide THEN AlignedPairs(fd) ELSE ZeroBytes(fd)
               img   == result.img
           IN  /\ terms # {}
               /\ img = SliceFrom(fd, Least(terms) + (IF wide THEN 2 ELSE 1))
               /\ result.ext =
                     IF Len(img) >= 4 /\ img[1] = 137 /\ img[2] = 80
                                      /\ img[3] = 78 /\ img[4] = 71
                     THEN ".png" ELSE ".jpg"

-----------------------------------------------------------------------------
(* C6 *)

C6_Inv ==
    /\ result.kind = "image" => Len(result.img) >= 4
    /\ pc = "done" /\ Scanned
          => /\ result = FirstUsable[2]
             /\ result.kind = "image" => pos = FirstUsable[1]

C6_Act ==
    /\ pc = "scan" /\ PictureHere /\ Null1(FrameData(pos)) = -1 => SkipsFrame
    /\ PictureHere /\ pc' # "utf16" /\ result'.kind # "image" /\ IoSucceeds
          => SkipsFrame

\* C6: a picture frame that cannot be decoded (no MIME terminator, or fewer
\* than 4 image bytes) is skipped by 10 + declared size and the scan goes
\* on; the result is the image of the first frame in body order that is a
\* picture frame with payload longer than 4 bytes and decodes, the scan
\* stops at that frame, and the result is None only if there is none
\* before end-of-data or padding.
C6_FirstUsableFrameWins == []C6_Inv /\ [][C6_Act]_vars

\* An image was returned from a later frame after the picture frame at
\* position 0 was found undecodable and skipped.
C6_Witness ==
    /\ pc = "done" /\ result.kind = "image" /\ pos > 0
    /\ IsPicture(0) /\ ~Usable(0)

-----------------------------------------------------------------------------
(* C7 *)

\* The declared size of the frame at p runs past the end of the body.
Overrun(p) == FrameSize(p) > Len(tag_data) - (p + 10)

C7_Inv ==
    /\ Scanned
          => LET size  == TagSize(Header(file))
                 avail == SliceFrom(file, 10)
             IN  /\ size >= Len(avail) => tag_data = avail
                 /\ size < Len(avail) => tag_data = SubSeq(avail, 1, size)
    /\ Scanned /\ pc \in {"scan", "utf16"} /\ FrameHere /\ Overrun(pos)
          => FrameData(pos) = SliceFrom(tag_data, pos + 10)

C7_Act ==
    pc \in {"scan", "utf16"} /\ FrameHere /\ FrameId(pos) = APIC
        /\ Overrun(pos) /\ pc' # "utf16" /\ IoSucceeds
        => LET rest == SliceFrom(tag_data, pos + 10)
               want == IF Len(rest) > 4 THEN Decoded(rest) ELSE NoImage
           IN  IF want.kind = "image" THEN Returns(want) ELSE SkipsFrame

\* C7: declared sizes larger than the bytes available are clamped: the body
\* is the bytes that follow the header, a frame's payload is the bytes that
\* remain after its 10-byte header, and a picture frame truncated this way
\* is decoded by the normal rules and yields its image.
C7_DeclaredSizesAreClamped == []C7_Inv /\ [][C7_Act]_vars

\* An image was returned from a picture frame whose declared size runs past
\* the body, in a tag whose declared size runs past the file.
C7_Witness ==
    /\ pc = "done" /\ result.kind = "image" /\ Scanned
    /\ Overrun(pos)
    /\ TagSize(Header(file)) > Len(file) - 10

-----------------------------------------------------------------------------
(* C8 *)

C8_Inv ==
    pc = "done"
        /\ (Len(file) < 10 \/ Slice(file, 0, 3) # ID3 \/ tag_data = <<>>)
        => result = NoImage

C8_Act ==
    /\ pc = "open" /\ (Len(file) < 10 \/ Slice(file, 0, 3) # ID3)
          => Returns(NoImage)
    /\ pc = "scan" /\ MoreFrames(pos) /\ At(tag_data, pos) = 0
          => Returns(NoImage) /\ pos' = pos

\* C8: the result is None for every input shorter than 10 bytes, or not
\* starting with 'ID3', or with an empty body, or whose frame identifier at
\* the scan position starts with 0x00; there the scan stops, so nothing at
\* or after the padding is decoded.
C8_AbsentEmptyOrPadding == []C8_Inv /\ [][C8_Act]_vars

\* The scan stopped with None at a padding frame that is followed by a
\* picture frame which would have decoded.
C8_Witness ==
    /\ pc = "done" /\ result = NoImage /\ Scanned
    /\ MoreFrames(pos) /\ At(tag_data, pos) = 0
    /\ pos + 11 < Len(tag_data) - 10
    /\ Usable(pos + 11)

-----------------------------------------------------------------------------
(* C9 *)

\* The declared size of the frame at p, from the four bytes at p + 4.
DeclaredSize(p) ==
    LET b0 == At(tag_data, p + 4)
        b1 == At(tag_data, p + 5)
        b2 == At(tag_data, p + 6)
        b3 == At(tag_data, p + 7)
    IN  IF major = 4
        THEN (b0 % 128) * 2097152 + (b1 % 128) * 16384 + (b2 % 128) * 128 + (b3 % 128)
        ELSE b0 * 16777216 + b1 * 65536 + b2 * 256 + b3

C9_Inv ==
    /\ Scanned
          => /\ major = At(file, 3)
             /\ Len(tag_data) =
                   Min((At(file, 6) % 128) * 2097152 + (At(file, 7) % 128) * 16384
                          + (At(file, 8) % 128) * 128 + (At(file, 9) % 128),
                       Len(file) - 10)
    /\ Scanned /\ pc \in {"scan", "utf16"} /\ FrameHere
          => Len(FrameData(pos)) = Min(DeclaredSize(pos), Len(tag_data) - (pos + 10))

C9_Act ==
    pc \in {"scan", "utf16"} /\ pc' = "scan" => pos' = pos + 10 + DeclaredSize(pos)

\* C9: the declared frame size is the syncsafe value of the 4 bytes at
\* position + 4 for version 4 and their plain big-endian value for every
\* other version; the next position is position + 10 + declared size (not
\* the clamped payload length); the tag size is syncsafe for every version.
C9_SizeEncodingByVersion == []C9_Inv /\ [][C9_Act]_vars

\* A version 4 scan has skipped a frame whose last size byte is 0x81 by
\* 10 + 1 bytes.
C9_Witness ==
    /\ pc = "scan" /\ Scanned /\ major = 4
    /\ pos = 11 /\ At(tag_data, 7) = 129

-----------------------------------------------------------------------------
(* C10 *)

C10_Act ==
    /\ pc = "scan" => pc' \in {"done", "utf16"} \/ (pc' = "scan" /\ pos' >= pos + 10)
    /\ pc = "utf16"
          => \/ pc' = "utf16" /\ j < Len(FrameData(pos)) - 1 /\ j' > j /\ pos' = pos
             \/ pc' = "done"
             \/ pc' = "scan" /\ pos' >= pos + 10

\* C10: the scan terminates: every iteration of the outer loop returns,
\* stops, or moves the position on by at least 10; the description scan
\* strictly increases its index and only runs below the payload's last
\* byte; so the call always reaches a result.
C10_ScanTerminates == <>(pc = "done") /\ [][C10_Act]_vars

\* The call returned an image after skipping a zero-size frame and running
\* the description scan past the description start.
C10_Witness ==
    /\ pc = "done" /\ result.kind = "image" /\ Scanned
    /\ pos > 0 /\ FrameSize(0) = 0
    /\ j > DescStart(FrameData(pos))

====
